---------------------------- MODULE Spec2Model ----------------------------
(***************************************************************************)
(* A model of the two scripts of the RFM customer-segmentation repository: *)
(*                                                                         *)
(*   Notebooks/eda_preprocessing.py  the batch cleaning pass (date         *)
(*                                   coercion, Age, age filter, Month)     *)
(*   app.py                          the Streamlit dashboard script, which *)
(*                                   is re-executed from its first line on *)
(*                                   every widget interaction              *)
(*                                                                         *)
(* Text (a CSV cell, a formatted value) is a sequence of one-character     *)
(* strings, so that formatting and parsing are computed, not assumed.      *)
(* Amounts are whole numbers.                                              *)
(***************************************************************************)
EXTENDS Integers, Sequences, FiniteSets, TLC

VARIABLES
    \* ---- eda_preprocessing.py ----
    pre_pc,        \* the statement the batch script is about to execute
    raw,           \* the rows of ../data/bank_data_C.csv
    data,          \* the DataFrame `data`
    today,         \* the reference date read from the clock
    cleaned,       \* the rows written to ../output/cleaned_data.csv
    \* ---- app.py ----
    file,          \* output/rfm_segmented.csv: header and text rows
    cache,         \* st.cache_data's entry for load_data
    session,       \* "fresh" before the first script run, then "live"
    segments,      \* value of the "Select Segment" multiselect
    clusters,      \* value of the "Select Cluster" multiselect
    toggles,       \* values of the seven "Show ..." checkboxes
    df,            \* the script's `df` in the last run
    filtered_df,   \* the script's `filtered_df` in the last run
    status,        \* how the last run ended
    rendered,      \* the elements the last run sent to the page, in order
    views,         \* the content of the derived views of the last run
    download       \* the CSV text handed to st.download_button

preVars == <<pre_pc, raw, data, today, cleaned>>
appVars == <<file, cache, session, segments, clusters, toggles, df,
             filtered_df, status, rendered, views, download>>
vars == <<pre_pc, raw, data, today, cleaned, file, cache, session, segments,
          clusters, toggles, df, filtered_df, status, rendered, views,
          download>>

-----------------------------------------------------------------------------
(* Text *)

Digit == <<"0", "1", "2", "3", "4", "5", "6", "7", "8", "9">>

Max(a, b) == IF a >= b THEN a ELSE b
Min(a, b) == IF a <= b THEN a ELSE b

RECURSIVE IntToText(_)
\* str(n) for a whole number n >= 0
IntToText(n) ==
    IF n < 10 THEN <<Digit[n + 1]>>
    ELSE IntToText(n \div 10) \o <<Digit[(n % 10) + 1]>>

IsDigit(c) == \E i \in 1..10 : Digit[i] = c
DigitVal(c) == (CHOOSE i \in 1..10 : Digit[i] = c) - 1

\* the parser's test for an integer cell
IsIntText(t) == Len(t) > 0 /\ \A i \in 1..Len(t) : IsDigit(t[i])

RECURSIVE TextToInt(_)
TextToInt(t) ==
    IF Len(t) = 0 THEN 0
    ELSE 10 * TextToInt(SubSeq(t, 1, Len(t) - 1)) + DigitVal(t[Len(t)])

RECURSIVE ZeroPad(_, _)
ZeroPad(t, w) == IF Len(t) >= w THEN t ELSE ZeroPad(<<"0">> \o t, w)

-----------------------------------------------------------------------------
(* Calendar arithmetic of pandas Timestamps (proleptic Gregorian) *)

IsLeap(y) == (y % 4 = 0 /\ y % 100 # 0) \/ y % 400 = 0

DaysInMonth(y, m) ==
    IF m = 2 THEN (IF IsLeap(y) THEN 29 ELSE 28)
    ELSE IF m \in {4, 6, 9, 11} THEN 30 ELSE 31

DaysBeforeYear(y) ==
    365 * (y - 1) + ((y - 1) \div 4) - ((y - 1) \div 100) + ((y - 1) \div 400)

RECURSIVE DaysBeforeMonth(_, _)
DaysBeforeMonth(y, m) ==
    IF m = 1 THEN 0 ELSE DaysBeforeMonth(y, m - 1) + DaysInMonth(y, m - 1)

\* the day number of a date (date.toordinal)
Ordinal(t) == DaysBeforeYear(t.y) + DaysBeforeMonth(t.y, t.m) + t.d


-----------------------------------------------------------------------------
(* Notebooks/eda_preprocessing.py *)

\* bounds of the model
MaxRawRows == 2

\* the age filter's limits
MinAge == 18
MaxAge == 100
DaysPerYear == 365

\* pd.Timestamp.min and pd.Timestamp.max, as dates
TimestampMin == [y |-> 1677, m |-> 9, d |-> 21]
TimestampMax == [y |-> 2262, m |-> 4, d |-> 11]

NaT == [nat |-> TRUE, y |-> 0, m |-> 0, d |-> 0]
NaN == [nan |-> TRUE, v |-> 0]
NaTText == <<"N", "a", "T">>

\* a date cell of the raw file names a real day of the calendar that a
\* Timestamp can hold
ValidDate(c) ==
    /\ c.y >= 1 /\ c.m \in 1..12
    /\ c.d >= 1 /\ c.d <= DaysInMonth(c.y, c.m)
    /\ Ordinal(c) >= Ordinal(TimestampMin)
    /\ Ordinal(c) <= Ordinal(TimestampMax)

\* pd.to_datetime(cell, errors=...): the parse raises on a bad cell unless
\* errors = "coerce", which yields NaT
to_datetime(c, errors) ==
    IF ValidDate(c) THEN [raised |-> FALSE,
                          value |-> [nat |-> FALSE, y |-> c.y, m |-> c.m, d |-> c.d]]
    ELSE IF errors = "coerce" THEN [raised |-> FALSE, value |-> NaT]
    ELSE [raised |-> TRUE, value |-> NaT]

\* the errors= argument of lines 13 and 14
DateErrors == "coerce"

\* (today - dob).dt.days // 365, NaN for NaT
AgeOf(now, dob) ==
    IF dob.nat THEN NaN
    ELSE [nan |-> FALSE, v |-> (Ordinal(now) - Ordinal(dob)) \div DaysPerYear]

AgeInRange_lower_exclusive(age) ==
    (~age.nan) /\ age.v > MinAge /\ age.v <= MaxAge
\* (data['Age'] >= 18) & (data['Age'] <= 100); a comparison with NaN is False
AgeInRange(age) ==
    (~age.nan) /\ age.v >= MinAge /\ age.v <= MaxAge

MonthText_unpadded(ts) ==
    IF ts.nat THEN NaTText
    ELSE ZeroPad(IntToText(ts.y), 4) \o <<"-">> \o IntToText(ts.m)
\* ts.to_period('M') as str: "YYYY-MM", and "NaT" for NaT
MonthText(ts) ==
    IF ts.nat THEN NaTText
    ELSE ZeroPad(IntToText(ts.y), 4) \o <<"-">> \o ZeroPad(IntToText(ts.m), 2)

Blank == [y |-> 0, m |-> 0, d |-> 0]

\* CustomerDOB cells: days around the 18 and 100 year limits of the two
\* reference dates, the dataset's 1800 placeholder, a birth date in the
\* future, a day that does not exist and an empty cell
DobCells ==
    { [y |-> 2008, m |-> 11, d |-> 5],  [y |-> 2008, m |-> 11, d |-> 6],
      [y |-> 1925, m |-> 11, d |-> 27], [y |-> 1925, m |-> 11, d |-> 26],
      [y |-> 1800, m |-> 1,  d |-> 1],  [y |-> 2030, m |-> 1,  d |-> 1],
      [y |-> 1990, m |-> 2,  d |-> 30], Blank }

\* TransactionDate cells: days of two years, and a day that does not exist
TxnCells ==
    { [y |-> 2016, m |-> 8, d |-> 2], [y |-> 2015, m |-> 12, d |-> 31],
      [y |-> 2016, m |-> 2, d |-> 30] }

\* the clock readings of pd.to_datetime("today")
Clock == { [nat |-> FALSE, y |-> 2026, m |-> 11, d |-> 1],
           [nat |-> FALSE, y |-> 2026, m |-> 11, d |-> 2] }

\* the raw file whose rows hold the given cells
RawFile(cells) ==
    [i \in 1..Len(cells) |->
       [TransactionID |-> i, CustomerDOB |-> cells[i][1],
        TransactionDate |-> cells[i][2]]]

PreIdle ==
    /\ pre_pc = "off" /\ raw = <<>> /\ data = <<>> /\ today = NaT
    /\ cleaned = <<>>

\* the batch is about to start on a raw file of up to MaxRawRows rows
PreInit ==
    /\ pre_pc = "load"
    /\ \E n \in 0..MaxRawRows :
         \E cells \in [1..n -> DobCells \X TxnCells] : raw = RawFile(cells)
    /\ data = <<>> /\ today = NaT /\ cleaned = <<>>

\* line 10: data = pd.read_csv(data_path)
PreLoad ==
    /\ pre_pc = "load"
    /\ data' = raw
    /\ pre_pc' = "dates"
    /\ UNCHANGED <<raw, today, cleaned>>
    /\ UNCHANGED appVars

\* lines 13-14: both date columns through pd.to_datetime
PreConvertDates ==
    /\ pre_pc = "dates"
    /\ LET txn == [i \in 1..Len(data) |->
                     to_datetime(data[i].TransactionDate, DateErrors)]
           dob == [i \in 1..Len(data) |->
                     to_datetime(data[i].CustomerDOB, DateErrors)]
       IN IF \E i \in 1..Len(data) : txn[i].raised \/ dob[i].raised
          THEN /\ pre_pc' = "aborted"
               /\ data' = data
          ELSE /\ pre_pc' = "age"
               /\ data' = [i \in 1..Len(data) |->
                            [TransactionID |-> data[i].TransactionID,
                             CustomerDOB |-> dob[i].value,
                             TransactionDate |-> txn[i].value]]
    /\ UNCHANGED <<raw, today, cleaned>>
    /\ UNCHANGED appVars

\* lines 17-18: today = pd.to_datetime("today"); data['Age'] = ...
PreAge ==
    /\ pre_pc = "age"
    /\ \E now \in Clock :
         /\ today' = now
         /\ data' = [i \in 1..Len(data) |->
                      [TransactionID |-> data[i].TransactionID,
                       CustomerDOB |-> data[i].CustomerDOB,
                       TransactionDate |-> data[i].TransactionDate,
                       Age |-> AgeOf(now, data[i].CustomerDOB)]]
    /\ pre_pc' = "filter"
    /\ UNCHANGED <<raw, cleaned>>
    /\ UNCHANGED appVars

\* line 19: data = data[(data['Age'] >= 18) & (data['Age'] <= 100)]
PreFilter ==
    /\ pre_pc = "filter"
    /\ data' = SelectSeq(data, LAMBDA r : AgeInRange(r.Age))
    /\ pre_pc' = "month"
    /\ UNCHANGED <<raw, today, cleaned>>
    /\ UNCHANGED appVars

\* line 22: data['Month'] = data['TransactionDate'].dt.to_period('M').astype(str)
PreMonth ==
    /\ pre_pc = "month"
    /\ data' = [i \in 1..Len(data) |->
                 [TransactionID |-> data[i].TransactionID,
                  CustomerDOB |-> data[i].CustomerDOB,
                  TransactionDate |-> data[i].TransactionDate,
                  Age |-> data[i].Age,
                  Month |-> MonthText(data[i].TransactionDate)]]
    /\ pre_pc' = "save"
    /\ UNCHANGED <<raw, today, cleaned>>
    /\ UNCHANGED appVars

\* line 46: data.to_csv("../output/cleaned_data.csv", index=False)
PreSave ==
    /\ pre_pc = "save"
    /\ cleaned' = data
    /\ pre_pc' = "done"
    /\ UNCHANGED <<raw, data, today>>
    /\ UNCHANGED appVars

PreNext ==
    \/ PreLoad \/ PreConvertDates \/ PreAge \/ PreFilter \/ PreMonth
    \/ PreSave

-----------------------------------------------------------------------------
(* pandas: DataFrames and CSV text *)

Range(q) == { q[i] : i \in 1..Len(q) }

RECURSIVE SumSeq(_)
SumSeq(q) == IF Len(q) = 0 THEN 0 ELSE q[1] + SumSeq(Tail(q))

\* a DataFrame: column labels in order, a dtype per column, the index labels
\* of the rows and the rows themselves (column label -> value); an int64
\* column holds numbers, an object column holds text
NoFrame == [columns |-> <<>>, dtype |-> <<>>, index |-> <<>>, rows |-> <<>>]

\* the label pd.read_csv gives a column whose header cell is empty
ColumnLabel(h) == IF h = "" THEN "Unnamed: 0" ELSE h

\* pd.read_csv(path): a column every cell of which is an integer literal
\* becomes int64, any other column (and every column of a file without
\* rows) stays text; the index is 0, 1, 2, ...
read_csv(f) ==
    LET n == Len(f.rows)
        isInt(h) == n > 0 /\ \A i \in 1..n : IsIntText(f.rows[i][h])
        hs == Range(f.header)
        src(c) == CHOOSE h \in hs : ColumnLabel(h) = c
        labels == { ColumnLabel(h) : h \in hs }
    IN [columns |-> [k \in 1..Len(f.header) |-> ColumnLabel(f.header[k])],
        dtype |-> [c \in labels |->
                     IF isInt(src(c)) THEN "int64" ELSE "object"],
        index |-> [i \in 1..n |-> i - 1],
        rows |-> [i \in 1..n |->
                   [c \in labels |->
                      IF isInt(src(c)) THEN TextToInt(f.rows[i][src(c)])
                      ELSE f.rows[i][src(c)]]]]

\* the text to_csv writes for one cell
CellText(fr, i, c) ==
    IF fr.dtype[c] = "int64" THEN IntToText(fr.rows[i][c]) ELSE fr.rows[i][c]

\* frame.to_csv(index=...): the header line and one line per row, in the
\* frame's row and column order; index=True adds a first column, with an
\* empty header cell, that holds the index labels
to_csv(fr, index) ==
    LET header == IF index THEN <<"">> \o fr.columns ELSE fr.columns
    IN [header |-> header,
        rows |-> [i \in 1..Len(fr.rows) |->
                   [h \in Range(header) |->
                      IF index /\ h = "" THEN IntToText(fr.index[i])
                      ELSE CellText(fr, i, h)]]]

HasColumn(fr, c) == c \in Range(fr.columns)

\* frame[col].isin(values): one boolean per row
isin(fr, c, values) == [i \in 1..Len(fr.rows) |-> fr.rows[i][c] \in values]

MaskOr(a, b) == [i \in 1..Len(a) |-> a[i] \/ b[i]]
\* mask & mask
MaskAnd(a, b) == [i \in 1..Len(a) |-> a[i] /\ b[i]]

RECURSIVE Kept(_, _)
\* the positions at which a mask is True, in increasing order
Kept(mask, n) ==
    IF n = 0 THEN <<>>
    ELSE IF mask[n] THEN Append(Kept(mask, n - 1), n) ELSE Kept(mask, n - 1)

\* frame[mask] and frame.iloc[positions]: the rows at the positions, in the
\* order given, each with its index label
Take(fr, pos) ==
    [columns |-> fr.columns, dtype |-> fr.dtype,
     index |-> [k \in 1..Len(pos) |-> fr.index[pos[k]]],
     rows |-> [k \in 1..Len(pos) |-> fr.rows[pos[k]]]]

Loc(fr, mask) == Take(fr, Kept(mask, Len(fr.rows)))

\* frame.head(n)
head(fr, n) == Take(fr, [k \in 1..Min(n, Len(fr.rows)) |-> k])

\* frame[col].unique(), as a set
unique(fr, c) == { fr.rows[i][c] : i \in 1..Len(fr.rows) }

\* the values of a column, in row order
Column(fr, c) == [i \in 1..Len(fr.rows) |-> fr.rows[i][c]]

\* series.mean(): NaN for no values, else the quotient num/den
mean(q) == [nan |-> Len(q) = 0, num |-> SumSeq(q), den |-> Len(q)]

RECURSIVE SortOutcomes(_, _)
\* the orders an argsort of kind 'quicksort' (no tie order promised) can
\* give the positions P by descending key: any order in which the keys do
\* not increase
SortOutcomes(P, key) ==
    IF P = {} THEN { <<>> }
    ELSE LET top == CHOOSE i \in P : \A j \in P : key[i] >= key[j]
             ties == { i \in P : key[i] = key[top] }
         IN UNION { { <<i>> \o rest : rest \in SortOutcomes(P \ {i}, key) } :
                    i \in ties }

\* frame.sort_values(by=col, ascending=False): the possible results
sort_values_desc(fr, c) ==
    { Take(fr, pos) : pos \in SortOutcomes(1..Len(fr.rows), Column(fr, c)) }

RoundOutcomes_floor(num, den) == { num \div den }
\* the values round() can give num/den: the nearest whole number, and
\* either neighbour when num/den lies halfway (binary floating point
\* decides a halfway case by its representation error)
RoundOutcomes(num, den) ==
    LET lo == num \div den
    IN { q \in {lo, lo + 1} :
           2 * (IF num - q * den >= 0 THEN num - q * den ELSE q * den - num)
             <= den }

\* a quotient rounded to one decimal, in tenths; NaN when the divisor is 0
RoundedTenths(num, den) ==
    IF den = 0 THEN { NaN }
    ELSE { [nan |-> FALSE, v |-> q] : q \in RoundOutcomes(10 * num, den) }

\* every way to round each cell of a keyed family of quotients
RoundedCells(cells) ==
    LET all == UNION { RoundedTenths(cells[k].num, cells[k].den) :
                       k \in DOMAIN cells }
    IN { f \in [DOMAIN cells -> all] :
           \A k \in DOMAIN cells :
              f[k] \in RoundedTenths(cells[k].num, cells[k].den) }

-----------------------------------------------------------------------------
(* app.py: one execution of the script *)

\* bounds of the model
MaxRows == 2
MaxSchemaRows == 1
MaxChanged == 2

\* head(10) of lines 108 and 150
TopN == 10
ProfileRows == 10

Columns ==
    <<"CustomerID", "Recency", "Frequency", "Monetary", "Cluster", "Segment">>

\* the checkboxes of lines 26-32, by the variable each is assigned to
Toggles ==
    { "show_cluster_distribution", "show_segment_funnel", "show_rfm_matrix",
      "show_segment_table", "show_lifecycle_pie", "show_segment_composition",
      "show_top_customers" }

\* value=True on every checkbox
DefaultToggles == [t \in Toggles |-> TRUE]

\* the element each checkbox is meant to switch
ViewOf ==
    [t \in Toggles |->
       CASE t = "show_cluster_distribution" -> "cluster_bar"
         [] t = "show_segment_funnel" -> "segment_funnel"
         [] t = "show_rfm_matrix" -> "rfm_heat"
         [] t = "show_segment_table" -> "segment_info"
         [] t = "show_lifecycle_pie" -> "lifecycle_pie"
         [] t = "show_segment_composition" -> "segment_composition"
         [] t = "show_top_customers" -> "top_customers"]

\* the statements of the script that can raise, in execution order: a column
\* lookup raises KeyError when the table lacks the column, and a name that
\* only the body of a skipped `if` assigns raises NameError (every run starts
\* from an empty namespace)
Statements(fr, tg) ==
    << [line |-> 22, raises |-> ~HasColumn(fr, "Segment"), error |-> "KeyError"],
       [line |-> 23, raises |-> ~HasColumn(fr, "Cluster"), error |-> "KeyError"],
       [line |-> 48, raises |-> ~HasColumn(fr, "Recency"), error |-> "KeyError"],
       [line |-> 49, raises |-> ~HasColumn(fr, "Frequency"), error |-> "KeyError"],
       [line |-> 50, raises |-> ~HasColumn(fr, "Monetary"), error |-> "KeyError"],
       [line |-> 88, raises |-> tg["show_segment_composition"]
                                  /\ ~HasColumn(fr, "CustomerID"),
        error |-> "KeyError"],
       [line |-> 102, raises |-> ~tg["show_segment_composition"],
        error |-> "NameError"],
       [line |-> 117, raises |-> ~tg["show_top_customers"],
        error |-> "NameError"],
       [line |-> 134, raises |-> ~tg["show_segment_table"],
        error |-> "NameError"],
       [line |-> 163, raises |-> ~tg["show_rfm_matrix"],
        error |-> "NameError"] >>

Completed == [error |-> "none", line |-> 0]

\* the first statement that raises ends the run
Failure(fr, tg) ==
    LET st == Statements(fr, tg)
        bad == { k \in 1..Len(st) : st[k].raises }
    IN IF bad = {} THEN Completed
       ELSE LET k == CHOOSE k \in bad : \A j \in bad : k <= j
            IN [error |-> st[k].error, line |-> st[k].line]

\* the run executes the statement at `line` to its end
Reached(fail, line) == fail.error = "none" \/ line < fail.line

\* the statements that put an element on the page, in execution order
RenderPlan(tg) ==
    << [line |-> 47, name |-> "kpi_count", on |-> TRUE],
       [line |-> 48, name |-> "kpi_recency", on |-> TRUE],
       [line |-> 49, name |-> "kpi_frequency", on |-> TRUE],
       [line |-> 50, name |-> "kpi_monetary", on |-> TRUE],
       [line |-> 63, name |-> "cluster_bar",
        on |-> tg["show_cluster_distribution"]],
       [line |-> 75, name |-> "segment_funnel", on |-> tg["show_segment_funnel"]],
       [line |-> 83, name |-> "lifecycle_pie", on |-> tg["show_lifecycle_pie"]],
       [line |-> 102, name |-> "segment_composition", on |-> TRUE],
       [line |-> 117, name |-> "top_customers", on |-> TRUE],
       [line |-> 135, name |-> "segment_info", on |-> TRUE],
       [line |-> 150, name |-> "cluster_profiles", on |-> TRUE],
       [line |-> 164, name |-> "rfm_heat", on |-> TRUE],
       [line |-> 169, name |-> "download_button", on |-> TRUE] >>

Rendered(fail, tg) ==
    LET done == SelectSeq(RenderPlan(tg),
                          LAMBDA e : e.on /\ Reached(fail, e.line))
    IN [k \in 1..Len(done) |-> done[k].name]

\* the rows of a frame whose column c holds k
GroupRows(fr, c, k) == Loc(fr, [i \in 1..Len(fr.rows) |-> fr.rows[i][c] = k])

\* frame[[...]]: the listed columns only
Project(fr, cols) ==
    [columns |-> cols,
     dtype |-> [c \in Range(cols) |-> fr.dtype[c]],
     index |-> fr.index,
     rows |-> [i \in 1..Len(fr.rows) |-> [c \in Range(cols) |-> fr.rows[i][c]]]]

RECURSIVE SetSum(_, _)
\* the sum of f over a finite set of keys
SetSum(f, S) ==
    IF S = {} THEN 0
    ELSE LET k == CHOOSE k \in S : TRUE IN f[k] + SetSum(f, S \ {k})

FilterView_or(fr, segs, clus) ==
    Loc(fr, MaskOr(isin(fr, "Segment", segs), isin(fr, "Cluster", clus)))
\* line 38: df[(df['Segment'].isin(segments)) & (df['Cluster'].isin(clusters))]
FilterView(fr, segs, clus) ==
    Loc(fr, MaskAnd(isin(fr, "Segment", segs), isin(fr, "Cluster", clus)))

\* lines 47-50: the count and the three means handed to st.metric
Kpis(fail, view) ==
    LET m(line, c) == IF Reached(fail, line) THEN mean(Column(view, c))
                      ELSE mean(<<>>)
    IN [count |-> Len(view.rows),
        Recency |-> m(48, "Recency"),
        Frequency |-> m(49, "Frequency"),
        Monetary |-> m(50, "Monetary")]

\* line 55 and line 80: value_counts() of a column
ValueCounts(view, c) ==
    [k \in unique(view, c) |-> Len(GroupRows(view, c, k).rows)]

\* line 68: groupby('Segment')['Monetary'].mean(), the chart order left out
SegMon(view) ==
    [k \in unique(view, "Segment") |->
       mean(Column(GroupRows(view, "Segment", k), "Monetary"))]

\* lines 88-93: per segment the customer count and the Monetary sum, and
\* each as a percentage of its column's total, rounded to one decimal
CompOutcomes(view) ==
    LET keys == unique(view, "Segment")
        customers == [k \in keys |->
                        Len(Column(GroupRows(view, "Segment", k), "CustomerID"))]
        monetary == [k \in keys |->
                       SumSeq(Column(GroupRows(view, "Segment", k), "Monetary"))]
        pcs == RoundedCells([k \in keys |->
                  [num |-> 100 * customers[k], den |-> SetSum(customers, keys)]])
        pvs == RoundedCells([k \in keys |->
                  [num |-> 100 * monetary[k], den |-> SetSum(monetary, keys)]])
    IN { [k \in keys |->
            [Customers |-> customers[k], TotalMonetary |-> monetary[k],
             PctCustomers |-> pc[k], PctValue |-> pv[k]]] :
         pc \in pcs, pv \in pvs }

\* line 108: filtered_df.sort_values(by='Monetary', ascending=False).head(10)
TopOutcomes(view) ==
    { head(sorted, TopN) : sorted \in sort_values_desc(view, "Monetary") }

\* lines 147-150: for every cluster of df, the first 10 rows of df in it
Profiles(fr) ==
    [c \in unique(fr, "Cluster") |->
       head(Project(GroupRows(fr, "Cluster", c),
                    <<"CustomerID", "Recency", "Frequency", "Monetary",
                      "Segment">>),
            ProfileRows)]

\* line 155: groupby('Cluster')[[R, F, M]].mean().round(1)
RfmOutcomes(view) ==
    LET keys == unique(view, "Cluster")
        cells(c) == [k \in keys |->
                       LET m == mean(Column(GroupRows(view, "Cluster", k), c))
                       IN [num |-> m.num, den |-> m.den]]
    IN { [k \in keys |-> [Recency |-> r[k], Frequency |-> f[k], Monetary |-> m[k]]] :
         r \in RoundedCells(cells("Recency")),
         f \in RoundedCells(cells("Frequency")),
         m \in RoundedCells(cells("Monetary")) }

Export_with_index(view) == to_csv(view, TRUE)
\* line 169: filtered_df.to_csv(index=False)
Export(view) == to_csv(view, FALSE)

NoFile == [header |-> <<>>, rows |-> <<>>]

\* everything one execution of the script can produce from the table and the
\* widget values
Outcomes(fr, segs, clus, tg) ==
    LET fail == Failure(fr, tg)
        at(line) == Reached(fail, line)
        view == IF at(38) THEN FilterView(fr, segs, clus) ELSE NoFrame
        comps == IF tg["show_segment_composition"] /\ at(93)
                 THEN CompOutcomes(view) ELSE { <<>> }
        tops == IF tg["show_top_customers"] /\ at(108)
                THEN TopOutcomes(view) ELSE { NoFrame }
        rfms == IF tg["show_rfm_matrix"] /\ at(155)
                THEN RfmOutcomes(view) ELSE { <<>> }
    IN { [status |-> fail,
          filtered_df |-> view,
          rendered |-> Rendered(fail, tg),
          download |-> IF at(169) THEN Export(view) ELSE NoFile,
          views |->
            [kpi |-> IF at(47) THEN Kpis(fail, view) ELSE Kpis(fail, NoFrame),
             cluster_counts |->
                IF tg["show_cluster_distribution"] /\ at(55)
                THEN ValueCounts(view, "Cluster") ELSE <<>>,
             seg_mon |-> IF tg["show_segment_funnel"] /\ at(68)
                         THEN SegMon(view) ELSE <<>>,
             seg_dist |-> IF tg["show_lifecycle_pie"] /\ at(80)
                          THEN ValueCounts(view, "Segment") ELSE <<>>,
             comp_df |-> comp,
             top_customers |-> top,
             profiles |-> IF at(150) THEN Profiles(fr) ELSE <<>>,
             rfm_matrix |-> rfm]] :
         comp \in comps, top \in tops, rfm \in rfms }

-----------------------------------------------------------------------------
(* app.py: the input file and the session *)

Best == <<"B", "e", "s", "t">>
Churned == <<"C", "h", "u", "r", "n", "e", "d">>
AtRisk == <<"A", "t", " ", "R", "i", "s", "k">>

\* the customers the input files are made of: the two records of the
\* specification's example scenario and two more; an identifier is the row
\* number, behind a letter for some customers and bare for others
Customers ==
    << [lettered |-> TRUE, Recency |-> 5, Frequency |-> 10, Monetary |-> 1000,
        Cluster |-> 0, Segment |-> Best],
       [lettered |-> FALSE, Recency |-> 50, Frequency |-> 1, Monetary |-> 50,
        Cluster |-> 2, Segment |-> Churned],
       [lettered |-> TRUE, Recency |-> 20, Frequency |-> 3, Monetary |-> 750,
        Cluster |-> 0, Segment |-> AtRisk],
       [lettered |-> FALSE, Recency |-> 90, Frequency |-> 1, Monetary |-> 0,
        Cluster |-> 2, Segment |-> AtRisk] >>

\* one line of the file
RowText(k, i) ==
    [c \in Range(Columns) |->
       CASE c = "CustomerID" ->
              (IF k.lettered THEN <<"C">> ELSE <<>>) \o IntToText(i)
         [] c = "Segment" -> k.Segment
         [] OTHER -> IntToText(k[c])]

FileOf(rows) ==
    [header |-> Columns, rows |-> [i \in 1..Len(rows) |-> RowText(rows[i], i)]]

\* the files of one to n customers
FilesUpTo(n) ==
    { FileOf([i \in 1..Len(ks) |-> Customers[ks[i]]]) :
        ks \in UNION { [1..m -> 1..Len(Customers)] : m \in 1..n } }

\* a file of TopN + 1 customers whose Monetary falls row by row, except that
\* the last two are equal
TieFile ==
    FileOf([i \in 1..(TopN + 1) |->
              [lettered |-> TRUE, Recency |-> 5, Frequency |-> 10,
               Monetary |-> 100 * Max(TopN + 1 - i, 1),
               Cluster |-> 0, Segment |-> Best]])

\* a file written without one column
DropColumn(f, c) ==
    LET header == SelectSeq(f.header, LAMBDA h : h # c)
    IN [header |-> header,
        rows |-> [i \in 1..Len(f.rows) |->
                    [h \in Range(header) |-> f.rows[i][h]]]]

\* files with the six columns
Files == FilesUpTo(MaxRows) \cup { TieFile }

\* files with the six columns or with one of them missing
SchemaFiles ==
    FilesUpTo(MaxSchemaRows)
      \cup { DropColumn(f, c) : f \in FilesUpTo(MaxSchemaRows),
                                c \in Range(Columns) }

AppIdle ==
    /\ file = NoFile /\ cache = NoFrame /\ session = "off"
    /\ segments = {} /\ clusters = {} /\ toggles = DefaultToggles
    /\ df = NoFrame /\ filtered_df = NoFrame /\ status = Completed
    /\ rendered = <<>> /\ views = <<>> /\ download = NoFile

\* a browser session opens on the app; the script has not run yet
AppInit(F) ==
    /\ file \in F
    /\ cache = NoFrame /\ session = "fresh"
    /\ segments = {} /\ clusters = {} /\ toggles = DefaultToggles
    /\ df = NoFrame /\ filtered_df = NoFrame /\ status = Completed
    /\ rendered = <<>> /\ views = <<>> /\ download = NoFile

\* lines 10-14: load_data() under st.cache_data
load_data(f) == read_csv(f)

\* lines 14-169 with the widget values given
Execute(fr, segs, clus, tg) ==
    /\ df' = fr
    /\ \E o \in Outcomes(fr, segs, clus, tg) :
         /\ status' = o.status
         /\ filtered_df' = o.filtered_df
         /\ rendered' = o.rendered
         /\ views' = o.views
         /\ download' = o.download

\* options= and default= of a multiselect: sorted(df[col].unique())
Options(fr, c) == IF HasColumn(fr, c) THEN unique(fr, c) ELSE {}

\* the widgets the last run put in the sidebar
HasSegmentWidget == session = "live" /\ HasColumn(cache, "Segment")
HasClusterWidget == HasSegmentWidget /\ HasColumn(cache, "Cluster")
HasCheckboxes == HasClusterWidget

\* the first run of a session: load_data misses the cache and reads the
\* file, every widget takes its default
FirstRun ==
    /\ session = "fresh"
    /\ session' = "live"
    /\ LET fr == load_data(file)
       IN /\ cache' = fr
          /\ segments' = Options(fr, "Segment")
          /\ clusters' = IF HasColumn(fr, "Segment")
                         THEN Options(fr, "Cluster") ELSE {}
          /\ Execute(fr, segments', clusters', toggles)
    /\ UNCHANGED <<file, toggles>>
    /\ UNCHANGED preVars

\* how many widget values differ from their defaults
Changed(segs, clus, tg) ==
    Cardinality(Options(cache, "Segment") \ segs)
      + Cardinality(Options(cache, "Cluster") \ clus)
      + Cardinality({ t \in Toggles : ~tg[t] })

\* the user ticks or unticks a checkbox: the script runs again
ToggleView(t) ==
    /\ HasCheckboxes
    /\ toggles' = [toggles EXCEPT ![t] = ~@]
    /\ Changed(segments, clusters, toggles') <= MaxChanged
    /\ Execute(cache, segments, clusters, toggles')
    /\ UNCHANGED <<file, cache, session, segments, clusters>>
    /\ UNCHANGED preVars

\* the user adds or removes one segment in the multiselect
PickSegment(s) ==
    /\ HasSegmentWidget
    /\ s \in Options(cache, "Segment")
    /\ segments' = IF s \in segments THEN segments \ {s} ELSE segments \cup {s}
    /\ Changed(segments', clusters, toggles) <= MaxChanged
    /\ Execute(cache, segments', clusters, toggles)
    /\ UNCHANGED <<file, cache, session, clusters, toggles>>
    /\ UNCHANGED preVars

\* the user adds or removes one cluster in the multiselect
PickCluster(c) ==
    /\ HasClusterWidget
    /\ c \in Options(cache, "Cluster")
    /\ clusters' = IF c \in clusters THEN clusters \ {c} ELSE clusters \cup {c}
    /\ Changed(segments, clusters', toggles) <= MaxChanged
    /\ Execute(cache, segments, clusters', toggles)
    /\ UNCHANGED <<file, cache, session, segments, toggles>>
    /\ UNCHANGED preVars

-----------------------------------------------------------------------------
(* Specifications *)

Init == PreIdle /\ AppInit(Files)

Next ==
    \/ FirstRun
    \/ \E t \in Toggles : ToggleView(t)
    \/ \E s \in Options(cache, "Segment") : PickSegment(s)
    \/ \E c \in Options(cache, "Cluster") : PickCluster(c)

\* the dashboard on a file that has the six columns
Spec == Init /\ [][Next]_vars

InitSchema == PreIdle /\ AppInit(SchemaFiles)
\* the dashboard on a file that may lack one column
SpecSchema == InitSchema /\ [][Next]_vars

InitPre == PreInit /\ AppIdle
\* the preprocessing batch
SpecPre == InitPre /\ [][PreNext]_vars

-----------------------------------------------------------------------------
(* Properties of the dashboard *)

\* the last run of the script got past the statement at `line`
Ran(line) == session = "live" /\ Reached(status, line)

Shows(name) == session = "live" /\ name \in Range(rendered)

\* the rows of df that the current selections admit, by position
Admitted ==
    { i \in 1..Len(df.rows) :
        df.rows[i]["Segment"] \in segments /\ df.rows[i]["Cluster"] \in clusters }

\* C1: the filtered view is exactly the rows of the table with Segment in
\* the selected segments and Cluster in the selected clusters, in the
\* table's row order; with every segment and every cluster selected it is
\* the whole table.
FilterCorrect ==
    Ran(38) =>
      /\ filtered_df.columns = df.columns
      /\ Len(filtered_df.rows) = Cardinality(Admitted)
      /\ \A k \in 1..Len(filtered_df.rows) :
           /\ filtered_df.index[k] + 1 \in Admitted
           /\ filtered_df.rows[k] = df.rows[filtered_df.index[k] + 1]
      /\ \A k, l \in 1..Len(filtered_df.rows) :
           k < l => filtered_df.index[k] < filtered_df.index[l]
      /\ (segments = unique(df, "Segment") /\ clusters = unique(df, "Cluster"))
           => filtered_df = df

\* C1 witness: both selections are narrowed and non-empty, and the view
\* keeps some rows and drops others
FilterNarrows ==
    /\ Ran(38)
    /\ segments # {} /\ segments # unique(df, "Segment")
    /\ clusters # {} /\ clusters # unique(df, "Cluster")
    /\ Len(filtered_df.rows) >= 1
    /\ Len(filtered_df.rows) < Len(df.rows)

\* C2: for every combination of the seven checkboxes a run completes without
\* raising, shows a derived view exactly when its checkbox is ticked, and
\* reaches the export step.
TogglesRenderAndComplete ==
    session = "live" =>
      /\ status.error = "none"
      /\ \A t \in Toggles : Shows(ViewOf[t]) <=> toggles[t]
      /\ Shows("download_button")

\* C3: with an empty segment or cluster selection the view has no rows, the
\* KPI count is 0, the three KPI means are NaN, the profile table, the
\* composition table and the top-10 list are empty, and the run computes and
\* shows them all without raising.
EmptySelectionDegrades ==
    (session = "live" /\ (segments = {} \/ clusters = {})) =>
      /\ status.error = "none"
      /\ Len(filtered_df.rows) = 0
      /\ views.kpi.count = 0
      /\ views.kpi.Recency.nan /\ views.kpi.Frequency.nan
      /\ views.kpi.Monetary.nan
      /\ DOMAIN views.rfm_matrix = {}
      /\ DOMAIN views.comp_df = {}
      /\ Len(views.top_customers.rows) = 0
      /\ \A v \in {"kpi_count", "kpi_recency", "kpi_frequency", "kpi_monetary",
                   "rfm_heat", "segment_composition", "top_customers"} :
           Shows(v)

\* with every checkbox ticked an empty selection does degrade as described
EmptySelectionDegradesWhenAllTicked ==
    (toggles = DefaultToggles) => EmptySelectionDegrades

\* Monetary of the k-th row of a frame
Amount(fr, k) == fr.rows[k]["Monetary"]

\* row k of frame a is to come before row l of frame b: more Monetary, or
\* the same Monetary and earlier in the table
Before(a, k, b, l) ==
    \/ Amount(a, k) > Amount(b, l)
    \/ Amount(a, k) = Amount(b, l) /\ a.index[k] < b.index[l]

TopCustomersAreHighest ==
    Shows("top_customers") =>
      LET top == views.top_customers
          inTop == { top.index[k] : k \in 1..Len(top.rows) }
      IN /\ Len(top.rows) = Min(TopN, Len(filtered_df.rows))
         /\ Cardinality(inTop) = Len(top.rows)
         /\ \A k \in 1..Len(top.rows) :
              \E i \in 1..Len(filtered_df.rows) :
                 /\ filtered_df.index[i] = top.index[k]
                 /\ filtered_df.rows[i] = top.rows[k]
         /\ \A k, l \in 1..Len(top.rows) :
              k < l => Amount(top, k) >= Amount(top, l)
         /\ \A i \in 1..Len(filtered_df.rows) :
              filtered_df.index[i] \notin inTop =>
                \A k \in 1..Len(top.rows) :
                   Amount(top, k) >= Amount(filtered_df, i)

\* the sum of a percentage column, in tenths of a percent; NaN cells are
\* skipped, as Series.sum does
PctSum(col) ==
    LET t == views.comp_df
    IN SetSum([k \in DOMAIN t |-> IF t[k][col].nan THEN 0 ELSE t[k][col].v],
              DOMAIN t)

Abs(x) == IF x >= 0 THEN x ELSE -x

\* a column's sum is 100 to within 0.05 per row of the table
SumsTo100(col) ==
    2 * Abs(PctSum(col) - 1000) <= Cardinality(DOMAIN views.comp_df)

\* the rows of the filtered view in segment k: how many, and their Monetary
SegmentCount(k) ==
    Cardinality({ i \in 1..Len(filtered_df.rows) :
                    filtered_df.rows[i]["Segment"] = k })

RECURSIVE SegmentValue(_, _)
SegmentValue(k, n) ==
    IF n = 0 THEN 0
    ELSE SegmentValue(k, n - 1)
           + (IF filtered_df.rows[n]["Segment"] = k
              THEN filtered_df.rows[n]["Monetary"] ELSE 0)

ViewValue == SumSeq(Column(filtered_df, "Monetary"))

\* C5 as claimed: for the composition table of any filtered view, '% of
\* Customers' sums to 100 within 0.05 per row, and so does '% of Value'.
PercentagesSumTo100 ==
    Shows("segment_composition") =>
      SumsTo100("PctCustomers") /\ SumsTo100("PctValue")

\* C5 amended: for a filtered view with at least one row, every '% of
\* Customers' is within 0.05 of 100 * (segment count / rows of the view) and
\* the column sums to 100 within 0.05 per row; when the Monetary total of
\* the view is not 0 the same holds of '% of Value'.  The table of an empty
\* view has no rows, and with a Monetary total of 0 every '% of Value' is
\* NaN: the column then sums to 0.
PercentagesSumTo100NonEmpty ==
    Shows("segment_composition") =>
      LET t == views.comp_df
          n == Len(filtered_df.rows)
      IN /\ DOMAIN t = unique(filtered_df, "Segment")
         /\ n = 0 => PctSum("PctCustomers") = 0 /\ PctSum("PctValue") = 0
         /\ n > 0 =>
              /\ SumsTo100("PctCustomers")
              /\ \A k \in DOMAIN t :
                   /\ ~t[k].PctCustomers.nan
                   /\ 2 * Abs(t[k].PctCustomers.v * n - 1000 * SegmentCount(k))
                        <= n
         /\ (n > 0 /\ ViewValue # 0) =>
              /\ SumsTo100("PctValue")
              /\ \A k \in DOMAIN t :
                   /\ ~t[k].PctValue.nan
                   /\ 2 * Abs(t[k].PctValue.v * ViewValue
                                - 1000 * SegmentValue(k, n))
                        <= ViewValue
         /\ (n > 0 /\ ViewValue = 0) =>
              /\ \A k \in DOMAIN t : t[k].PctValue.nan
              /\ PctSum("PctValue") = 0

\* C5 witness: a composition table of two segments or more over a view with
\* a Monetary total that is not 0
CompositionOfSeveralSegments ==
    /\ Shows("segment_composition")
    /\ Cardinality(DOMAIN views.comp_df) >= 2
    /\ ViewValue > 0

\* the table a re-load of the exported text gives
Reloaded == read_csv(download)

\* the exported text is the filtered view: its columns and rows in order,
\* every cell as the view holds it
ExportIsView ==
    /\ download.header = filtered_df.columns
    /\ Len(download.rows) = Len(filtered_df.rows)
    /\ \A i \in 1..Len(filtered_df.rows) :
         \A c \in Range(filtered_df.columns) :
            download.rows[i][c] =
              (IF filtered_df.dtype[c] = "int64"
               THEN IntToText(filtered_df.rows[i][c])
               ELSE filtered_df.rows[i][c])

SameShape ==
    /\ Reloaded.columns = filtered_df.columns
    /\ Len(Reloaded.rows) = Len(filtered_df.rows)

SameCell(i, c) ==
    /\ Reloaded.dtype[c] = filtered_df.dtype[c]
    /\ Reloaded.rows[i][c] = filtered_df.rows[i][c]

\* a text column every cell of which reads as an integer comes back as a
\* number column
RetypedCell(i, c) ==
    /\ filtered_df.dtype[c] = "object"
    /\ Reloaded.dtype[c] = "int64"
    /\ \A j \in 1..Len(filtered_df.rows) : IsIntText(filtered_df.rows[j][c])
    /\ Reloaded.rows[i][c] = TextToInt(filtered_df.rows[i][c])

SourceUntouched == cache = read_csv(file) /\ df = cache

ShownRecordsAreFiltered ==
    session = "live" =>
      LET kept == { filtered_df.index[i] : i \in 1..Len(filtered_df.rows) }
          top == views.top_customers
      IN /\ Shows("top_customers") =>
              \A k \in 1..Len(top.rows) : top.index[k] \in kept
         /\ Shows("cluster_profiles") =>
              \A c \in DOMAIN views.profiles :
                 /\ c \in clusters
                 /\ \A k \in 1..Len(views.profiles[c].rows) :
                      views.profiles[c].index[k] \in kept

\* C7: when the table lacks one of the six required columns the run fails
\* at load, before any KPI or derived view is shown.
MissingColumnFailsAtLoad ==
    (session = "live" /\ \E c \in Range(Columns) : ~HasColumn(cache, c)) =>
      /\ status.error # "none"
      /\ rendered = <<>>

-----------------------------------------------------------------------------
(* Properties of the preprocessing batch *)

\* the table after the age filter: `data`, and the written file at the end
Output == IF pre_pc = "done" THEN cleaned ELSE data

Filtered == pre_pc \in {"month", "save", "done"}

\* days from the birth date of raw row i to the reference date
DaysOld(i) == Ordinal(today) - Ordinal(raw[i].CustomerDOB)

\* raw row i has a birth date that parses and an age of 18 to 100, stated in
\* days: at least 18 * 365 and less than 101 * 365
OfValidAge(i) ==
    /\ ValidDate(raw[i].CustomerDOB)
    /\ MinAge * DaysPerYear <= DaysOld(i)
    /\ DaysOld(i) < (MaxAge + 1) * DaysPerYear

\* C6: the output holds exactly the input rows whose CustomerDOB parses and
\* whose Age = floor(days / 365) is between 18 and 100, in input order;
\* rows of age 17 or 101, of a birth date after the reference date or of an
\* unparseable birth date are absent, and a bad date never aborts the run.
AgeFilterExact ==
    /\ pre_pc # "aborted"
    /\ Filtered =>
         /\ Len(Output) = Cardinality({ i \in 1..Len(raw) : OfValidAge(i) })
         /\ \A k \in 1..Len(Output) :
              LET i == Output[k].TransactionID
              IN /\ i \in 1..Len(raw) /\ OfValidAge(i)
                 /\ ~Output[k].Age.nan
                 /\ Output[k].Age.v * DaysPerYear <= DaysOld(i)
                 /\ DaysOld(i) < (Output[k].Age.v + 1) * DaysPerYear
                 /\ Output[k].Age.v \in MinAge..MaxAge
         /\ \A k, l \in 1..Len(Output) :
              k < l => Output[k].TransactionID < Output[l].TransactionID

\* C6 witness: the batch has written its output; of two input rows the one
\* aged exactly 18 is kept and the one with an unparseable birth date is not
KeepsEighteenDropsUnparseable ==
    /\ pre_pc = "done"
    /\ Len(raw) = 2 /\ Len(cleaned) = 1
    /\ cleaned[1].Age = [nan |-> FALSE, v |-> MinAge]
    /\ \E i \in 1..Len(raw) : ~ValidDate(raw[i].CustomerDOB)

\* the order of characters in the month keys: "-" sorts before the digits
CharRank(c) == IF IsDigit(c) THEN DigitVal(c) + 1 ELSE 0

RECURSIVE TextLess(_, _)
\* a < b as strings
TextLess(a, b) ==
    IF Len(b) = 0 THEN FALSE
    ELSE IF Len(a) = 0 THEN TRUE
    ELSE IF a[1] # b[1] THEN CharRank(a[1]) < CharRank(b[1])
    ELSE TextLess(Tail(a), Tail(b))

\* the text is YYYY-MM for year y and month m
IsBucketOf(t, y, m) ==
    /\ Len(t) = 7 /\ t[5] = "-"
    /\ \A i \in {1, 2, 3, 4, 6, 7} : IsDigit(t[i])
    /\ TextToInt(SubSeq(t, 1, 4)) = y
    /\ TextToInt(SubSeq(t, 6, 7)) = m

\* the TransactionDate cell of the input row an output row comes from
TxnCell(r) == raw[r.TransactionID].TransactionDate

\* C8 as claimed: every output row carries as Month the YYYY-MM bucket of
\* its TransactionDate, the rows whose TransactionDate was malformed and
\* coerced to null included.
MonthIsYearMonth ==
    pre_pc = "done" =>
      \A k \in 1..Len(cleaned) :
         IsBucketOf(cleaned[k].Month, TxnCell(cleaned[k]).y,
                    TxnCell(cleaned[k]).m)

\* C8 amended: every output row whose TransactionDate parsed carries as
\* Month the YYYY-MM bucket of that date (day discarded), and these keys
\* sort as the months do; an output row whose TransactionDate was malformed
\* and coerced to null carries the text "NaT", which names no month.
MonthIsYearMonthOrNaT ==
    pre_pc = "done" =>
      /\ \A k \in 1..Len(cleaned) :
           IF ValidDate(TxnCell(cleaned[k]))
           THEN IsBucketOf(cleaned[k].Month, TxnCell(cleaned[k]).y,
                           TxnCell(cleaned[k]).m)
           ELSE cleaned[k].Month = NaTText
      /\ \A k, l \in 1..Len(cleaned) :
           (ValidDate(TxnCell(cleaned[k])) /\ ValidDate(TxnCell(cleaned[l])))
             => (TextLess(cleaned[k].Month, cleaned[l].Month)
                   <=> \/ TxnCell(cleaned[k]).y < TxnCell(cleaned[l]).y
                       \/ /\ TxnCell(cleaned[k]).y = TxnCell(cleaned[l]).y
                          /\ TxnCell(cleaned[k]).m < TxnCell(cleaned[l]).m)

\* C8 witness: two output rows with transaction dates in different months
MonthsOfTwoRows ==
    /\ pre_pc = "done"
    /\ Len(cleaned) = 2
    /\ ValidDate(TxnCell(cleaned[1])) /\ ValidDate(TxnCell(cleaned[2]))
    /\ cleaned[1].Month # cleaned[2].Month

=============================================================================
